---- MODULE Spec2Model ----
(***************************************************************************)
(* Model of testAll_reproducibility.py: the batch run of main (worker      *)
(* pool, result buffer, periodic and final write of algorithm_results.csv),*)
(* build_arguments_list, and the multi-window change point aggregation.    *)
(*                                                                         *)
(* Three specifications share the variables:                               *)
(*   Spec      main: pool, buffer, file                                    *)
(*   SpecBuild build_arguments_list                                        *)
(*   SpecAgg   aggregate_/deduplicate_change_points_by_window              *)
(***************************************************************************)
EXTENDS Integers, Sequences, FiniteSets, TLC

VARIABLES
    \* ---- main ----
    DO_SINGLE_BAR,          \* config["meta-parameters"]["DO_SINGLE_BAR"]
    outcome,                \* per task: what its bound function does when called
    finished,               \* results waiting in the pool's result cache,
                            \* in the order the workers completed them
    overtaken,              \* main received a result while an earlier
                            \* completed one was still waiting
    calls,                  \* per task: number of times callFunction ran it
    delivered,              \* tasks in the order their result reached main
    results_df,             \* the result buffer (DataFrame)
    counter,
    next_write_index,
    results_file_columns,
    file,                   \* lines of algorithm_results.csv
    pc,                     \* position of main
    faultedBy,              \* 0, or the task whose result raised in main
    finalWrites,            \* number of executions of the final write
    lastFlush,              \* what the last loop iteration wrote: "none",
                            \* or the branch of the periodic flush it took
    \* ---- build_arguments_list ----
    config, datasets, is_test_run, arguments, bpc,
    \* ---- aggregation ----
    cp_all_window_sizes, alpha, aggregated, deduplicated, apc

mainVars == <<DO_SINGLE_BAR, outcome, finished, overtaken, calls, delivered, results_df,
              counter, next_write_index, results_file_columns, file, pc,
              faultedBy, finalWrites, lastFlush>>
buildVars == <<config, datasets, is_test_run, arguments, bpc>>
aggVars == <<cp_all_window_sizes, alpha, aggregated, deduplicated, apc>>
vars == <<mainVars, buildVars, aggVars>>

----------------------------------------------------------------------------
\* Bounds

\* number of task descriptors of the batch
NumTasks == 4
\* number of pool workers (num_cores)
NumCores == 2

\* The flush period.  The source sets 100; the model takes a period that a
\* batch of NumTasks tasks crosses more than once.  Every statement about
\* the period is made in terms of this name.
write_every_x_iterations == 2

Tasks == 1..NumTasks

----------------------------------------------------------------------------
\* Generic helpers

Range(s) == {s[k] : k \in DOMAIN s}

RECURSIVE SumSeq(_)
SumSeq(s) == IF s = <<>> THEN 0 ELSE Head(s) + SumSeq(Tail(s))

RECURSIVE Concat(_)
Concat(ss) == IF ss = <<>> THEN <<>> ELSE Head(ss) \o Concat(Tail(ss))

\* Python's sorted() on a set of column names.  Column names are modelled
\* by their rank in the lexicographic order: 1 'Algorithm', 2 'P-Value',
\* 3 'Window Size'.
RECURSIVE sorted(_)
sorted(S) ==
    IF S = {} THEN <<>>
    ELSE LET m == CHOOSE x \in S : \A y \in S : x <= y
         IN <<m>> \o sorted(S \ {m})

----------------------------------------------------------------------------
\* Task functions and their results

\* A missing cell of a DataFrame
NaN == <<>>

\* The key lists of the entries a task function returns: [] (testBose with
\* do_j and do_wc false), one entry, and two sibling entries ('Bose J',
\* 'Bose WC') of another algorithm family with another parameter column.
EntryShapes ==
    { <<>>,
      << <<1, 3>> >>,
      << <<1, 2>>, <<1, 2>> >> }

\* What a task's bound function does: return its entries, return np.NaN
\* (testMartjushev_ADWIN, len(log) <= min_window), or raise.
Outcomes ==
    {[kind |-> "rows", shape |-> s] : s \in EntryShapes}
    \cup {[kind |-> "nan", shape |-> <<>>], [kind |-> "fault", shape |-> <<>>]}

\* A task no worker has run yet
Pending == [kind |-> "pending", shape |-> <<>>]
HasRun(i) == outcome[i] # Pending

\* One entry (a dict, in insertion order of its keys): the v-th entry of
\* task i.  Its cells identify the (algorithm, dataset, parameters) it is of.
Entry(i, v, keys) == [k \in 1..Len(keys) |-> <<keys[k], <<i, v>>>>]

Entries(i) ==
    [v \in 1..Len(outcome[i].shape) |-> Entry(i, v, outcome[i].shape[v])]

\* callFunction in the worker: the value the bound function returns.
\* ident is the object's identity: np.NaN is one float object per process.
callFunction(i) ==
    IF outcome[i].kind = "nan"
    THEN [type |-> "float", ident |-> "np.NaN", rows |-> <<>>]
    ELSE [type |-> "list", ident |-> "list", rows |-> Entries(i)]

\* The result crosses from the worker to main by pickle: main receives a
\* new object with the same value.
Unpickle(obj) == [obj EXCEPT !.ident = "unpickled"]

\* result is np.NaN
IsNpNaN(obj) == obj.ident = "np.NaN"

\* [r for r in result]
flattenedFirstOnly(result) ==
    [k \in 1..(IF result.rows = <<>> THEN 0 ELSE 1) |-> result.rows[k]]
flattened(result) == result.rows

----------------------------------------------------------------------------
\* DataFrame

EmptyDataFrame == [columns |-> <<>>, rows |-> <<>>]

DictHas(d, key) == \E p \in DOMAIN d : d[p][1] = key
DictGet(d, key) ==
    IF DictHas(d, key)
    THEN d[CHOOSE p \in DOMAIN d : d[p][1] = key][2]
    ELSE NaN

RECURSIVE AppendUnseen(_, _)
AppendUnseen(cols, keys) ==
    IF keys = <<>> THEN cols
    ELSE AppendUnseen(IF Head(keys) \in Range(cols) THEN cols
                      ELSE Append(cols, Head(keys)),
                      Tail(keys))

RECURSIVE DictColumns(_, _)
DictColumns(cols, dicts) ==
    IF dicts = <<>> THEN cols
    ELSE DictColumns(
            AppendUnseen(cols, [p \in DOMAIN Head(dicts) |-> Head(dicts)[p][1]]),
            Tail(dicts))

\* pd.DataFrame(list of dicts): columns in order of first appearance
DataFrame(dicts) ==
    LET cols == DictColumns(<<>>, dicts)
    IN [columns |-> cols,
        rows |-> [r \in DOMAIN dicts |->
                    [k \in DOMAIN cols |-> DictGet(dicts[r], cols[k])]]]

\* df.empty
empty(df) == Len(df.columns) = 0 \/ Len(df.rows) = 0

IndexOf(s, x) == CHOOSE k \in DOMAIN s : s[k] = x

\* df.reindex(columns=cols)
reindexByPosition(df, cols) ==
    [columns |-> cols,
     rows |-> [r \in DOMAIN df.rows |->
                [k \in DOMAIN cols |->
                    IF k <= Len(df.columns) THEN df.rows[r][k] ELSE NaN]]]
reindex(df, cols) ==
    [columns |-> cols,
     rows |-> [r \in DOMAIN df.rows |->
                [k \in DOMAIN cols |->
                    IF cols[k] \in Range(df.columns)
                    THEN df.rows[r][IndexOf(df.columns, cols[k])]
                    ELSE NaN]]]

\* pd.concat([a, b], ignore_index=True) of two frames with equal columns
concat(a, b) == [columns |-> a.columns, rows |-> a.rows \o b.rows]

\* df.iloc[n:]  (n counts rows from 0)
iloc(df, n) ==
    [columns |-> df.columns, rows |-> SubSeq(df.rows, n + 1, Len(df.rows))]

write_results_to_buffer_NoUnion(new_rows, existing_df) ==
    LET df_new == DataFrame(new_rows)
        all_columns == sorted(Range(df_new.columns))
    IN IF empty(df_new) THEN existing_df
       ELSE concat(reindex(existing_df, all_columns),
                   reindex(df_new, all_columns))

write_results_to_buffer(new_rows, existing_df) ==
    LET df_new == DataFrame(new_rows)
        all_columns ==
            sorted(Range(existing_df.columns) \cup Range(df_new.columns))
    IN IF empty(df_new) THEN existing_df
       ELSE concat(reindex(existing_df, all_columns),
                   reindex(df_new, all_columns))

----------------------------------------------------------------------------
\* The CSV file: a sequence of lines, <<"H", column names>> a header line
\* and <<"R", fields>> a data line.

\* to_csv writes a missing cell as an empty field
EmptyField == <<"">>
CsvField(cell) == IF cell = NaN THEN EmptyField ELSE cell

CsvRows(df) ==
    [r \in DOMAIN df.rows |->
        <<"R", [k \in DOMAIN df.rows[r] |-> CsvField(df.rows[r][k])]>>]

\* df.to_csv(results_file, index=False)
to_csv(df) == << <<"H", df.columns>> >> \o CsvRows(df)

\* df.to_csv(results_file, index=False, mode='a', header=False)
to_csv_append(old, df) == old \o CsvRows(df)

----------------------------------------------------------------------------
\* The pool

\* A pool of NumCores workers takes the tasks in submission order, each
\* worker one task at a time: task i is with a worker once fewer than
\* NumCores tasks submitted before it are unfinished.
AtWorker(i) ==
    /\ ~HasRun(i)
    /\ Cardinality({j \in 1..(i - 1) : ~HasRun(j)}) < NumCores

\* p.imap: the iterator hands out the result of the next task in
\* submission order, once it is there.
ImapUnorderedReady(i) == i \in Range(finished)
ImapReady(i) == i = Len(delivered) + 1 /\ i \in Range(finished)

\* Where main goes when an exception reaches the with-block: nothing
\* catches it, main is left before the final write.
CaughtBeforeFinalWrite == "final"
PropagateFault == "aborted"

\* counter % write_every_x_iterations == 0
FlushDueLate(c) == c % (write_every_x_iterations + 1) = 0
FlushDue(c) == c % write_every_x_iterations = 0

\* results_file_columns == list(results_df.columns)
AlwaysAppend(cols, df) == TRUE
ColumnsUnchanged(cols, df) == cols = df.columns

----------------------------------------------------------------------------
\* main

IdleBuild ==
    /\ config = <<>> /\ datasets = 0 /\ is_test_run = FALSE
    /\ arguments = <<>> /\ bpc = "idle"

IdleAgg ==
    /\ cp_all_window_sizes = <<>> /\ alpha = <<1, 1>>
    /\ aggregated = <<>> /\ deduplicated = <<>> /\ apc = "idle"

Init ==
    /\ DO_SINGLE_BAR \in BOOLEAN
    /\ outcome = [i \in Tasks |-> Pending]
    /\ finished = <<>>
    /\ overtaken = FALSE
    /\ calls = [i \in Tasks |-> 0]
    /\ delivered = <<>>
    /\ results_df = EmptyDataFrame
    /\ counter = 0
    /\ next_write_index = 0
    /\ results_file_columns = <<>>
    /\ file = <<>>
    /\ pc = "pool"
    /\ faultedBy = 0
    /\ finalWrites = 0
    /\ lastFlush = "none"
    /\ IdleBuild
    /\ IdleAgg

\* A worker runs callFunction on the task it holds and puts the result (or
\* the exception) on the pool's result queue.
WorkerRun(i) ==
    /\ pc = "pool"
    /\ AtWorker(i)
    /\ \E o \in Outcomes : outcome' = [outcome EXCEPT ![i] = o]
    /\ finished' = Append(finished, i)
    /\ calls' = [calls EXCEPT ![i] = @ + 1]
    /\ UNCHANGED <<DO_SINGLE_BAR, overtaken, delivered, results_df, counter,
                   next_write_index, results_file_columns, file, pc,
                   faultedBy, finalWrites, lastFlush>>
    /\ UNCHANGED <<buildVars, aggVars>>

\* The result of task i raises in main: the worker's exception re-raised by
\* the iterator, or the TypeError of iterating a float.
Raises(i) ==
    \/ outcome[i].kind = "fault"
    \/ LET result == Unpickle(callFunction(i))
       IN ~IsNpNaN(result) /\ result.type # "list"

\* One iteration of the streaming loop: the iterator yields the result of
\* task i, the body runs on it.
StreamIteration(i) ==
    /\ pc = "pool"
    /\ DO_SINGLE_BAR
    /\ ImapReady(i)
    /\ delivered' = Append(delivered, i)
    /\ finished' = SelectSeq(finished, LAMBDA j : j # i)
    /\ overtaken' = (overtaken \/ i # Head(finished))
    /\ IF Raises(i)
       THEN /\ pc' = PropagateFault
            /\ faultedBy' = i
            /\ lastFlush' = "none"
            /\ UNCHANGED <<results_df, counter, next_write_index,
                           results_file_columns, file>>
       ELSE LET result == Unpickle(callFunction(i))
            IN /\ pc' = IF Len(delivered') = NumTasks THEN "final" ELSE "pool"
               /\ faultedBy' = faultedBy
               /\ IF IsNpNaN(result)
                  THEN /\ lastFlush' = "none"
                       /\ UNCHANGED <<results_df, counter, next_write_index,
                                      results_file_columns, file>>
                  ELSE LET df == write_results_to_buffer(flattened(result),
                                                         results_df)
                           cnt == counter + 1
                           new_rows == iloc(df, next_write_index)
                           flush == FlushDue(cnt) /\ ~empty(new_rows)
                           append == ColumnsUnchanged(results_file_columns, df)
                       IN /\ results_df' = df
                          /\ counter' = cnt
                          /\ file' = IF ~flush THEN file
                                     ELSE IF append
                                          THEN to_csv_append(file, new_rows)
                                          ELSE to_csv(df)
                          /\ results_file_columns' =
                                IF flush /\ ~append THEN df.columns
                                ELSE results_file_columns
                          /\ next_write_index' =
                                IF flush THEN Len(df.rows) ELSE next_write_index
                          /\ lastFlush' = IF ~flush THEN "none"
                                          ELSE IF append THEN "append"
                                          ELSE "rewrite"
    /\ UNCHANGED <<DO_SINGLE_BAR, outcome, calls, finalWrites>>
    /\ UNCHANGED <<buildVars, aggVars>>

\* The tasks whose result raises, in the order map meets them: map re-raises
\* the first exception a worker reported; otherwise the comprehension over
\* the results (in submission order) raises at the first float.
FirstRaising ==
    IF \E i \in Tasks : outcome[i].kind = "fault"
    THEN finished[CHOOSE k \in DOMAIN finished :
                    /\ outcome[finished[k]].kind = "fault"
                    /\ \A m \in 1..(k - 1) : outcome[finished[m]].kind # "fault"]
    ELSE CHOOSE i \in Tasks :
            /\ Raises(i)
            /\ \A j \in 1..(i - 1) : ~Raises(j)

\* The rows of every result that is not np.NaN, in the order of the list
\* p.map returns (submission order).
flattened_results ==
    LET results == [i \in Tasks |-> Unpickle(callFunction(i))]
        kept == SelectSeq(results, LAMBDA r : ~IsNpNaN(r))
    IN Concat([k \in DOMAIN kept |-> flattened(kept[k])])

\* Bulk mode: p.map returns once every task is done, then the results are
\* filtered, flattened and put into the buffer in one call.
BulkMap ==
    /\ pc = "pool"
    /\ ~DO_SINGLE_BAR
    /\ Range(finished) = Tasks
    /\ delivered' = [i \in Tasks |-> i]
    /\ finished' = <<>>
    /\ IF \E i \in Tasks : Raises(i)
       THEN /\ pc' = PropagateFault
            /\ faultedBy' = FirstRaising
            /\ UNCHANGED results_df
       ELSE /\ pc' = "final"
            /\ faultedBy' = faultedBy
            /\ results_df' =
                    write_results_to_buffer(flattened_results, results_df)
    /\ UNCHANGED <<DO_SINGLE_BAR, outcome, overtaken, calls, counter,
                   next_write_index, results_file_columns, file,
                   finalWrites, lastFlush>>
    /\ UNCHANGED <<buildVars, aggVars>>

\* results_df.to_csv(results_file, index=False) after the with-block
FinalWrite ==
    /\ pc = "final"
    /\ file' = to_csv(results_df)
    /\ finalWrites' = finalWrites + 1
    /\ pc' = "done"
    /\ lastFlush' = "none"
    /\ UNCHANGED <<DO_SINGLE_BAR, outcome, finished, overtaken, calls, delivered,
                   results_df, counter, next_write_index,
                   results_file_columns, faultedBy>>
    /\ UNCHANGED <<buildVars, aggVars>>

Next ==
    \/ \E i \in Tasks : WorkerRun(i)
    \/ \E i \in Tasks : StreamIteration(i)
    \/ BulkMap
    \/ FinalWrite

Spec == Init /\ [][Next]_vars

----------------------------------------------------------------------------
\* Change point aggregation

\* most candidates in one mapping, over all its window sizes
MaxCandidates == 4
\* largest min_support_windows tried
MaxSupport == 4

WindowSizes == {2, 3, 10}
Locations == {100, 102, 104}
\* alpha as a fraction <<numerator, denominator>>: 0, 0.25, 1.0
Alphas == {<<0, 1>>, <<1, 4>>, <<1, 1>>}

RECURSIVE SeqsUpTo(_, _)
SeqsUpTo(S, n) ==
    IF n = 0 THEN {<<>>}
    ELSE LET shorter == SeqsUpTo(S, n - 1)
         IN shorter \cup {Append(q, x) : q \in {t \in shorter : Len(t) = n - 1},
                                         x \in S}

\* The mappings {window_size: [change points]} over the window sizes keys
\* with at most budget candidates: a window size is absent, or has a list
\* (possibly the empty one).
RECURSIVE MappingsOver(_, _)
MappingsOver(keys, budget) ==
    IF keys = {} THEN {<<>>}
    ELSE LET ws == CHOOSE x \in keys : \A y \in keys : x <= y
         IN MappingsOver(keys \ {ws}, budget)
            \cup UNION {{(ws :> q) @@ m :
                            m \in MappingsOver(keys \ {ws}, budget - Len(q))} :
                        q \in SeqsUpTo(Locations, budget)}

Mappings == MappingsOver(WindowSizes, MaxCandidates)

Abs(x) == IF x < 0 THEN 0 - x ELSE x

\* Step 1: one record per (window size, change point).  The mapping's items
\* are taken by ascending window size; the sort below makes the order of the
\* items immaterial, records of one window size and change point being equal.
RECURSIVE FlattenRecords(_, _)
FlattenRecords(mapping, keys) ==
    IF keys = {} THEN <<>>
    ELSE LET ws == CHOOSE x \in keys : \A y \in keys : x <= y
         IN [k \in DOMAIN mapping[ws] |->
                [cp |-> mapping[ws][k],
                 window_size |-> ws,
                 support |-> 1,
                 supporting_windows |-> {ws}]]
            \o FlattenRecords(mapping, keys \ {ws})

\* key=lambda x: (-x["window_size"], x["cp"])
KeyLessWindowOnly(a, b) == a.window_size > b.window_size
KeyLess(a, b) ==
    \/ a.window_size > b.window_size
    \/ a.window_size = b.window_size /\ a.cp < b.cp

\* list.sort is stable: a record goes behind every record that is not
\* greater than it.
RECURSIVE InsertSorted(_, _)
InsertSorted(sortedRecs, rec) ==
    IF sortedRecs = <<>> THEN <<rec>>
    ELSE IF KeyLess(rec, Head(sortedRecs))
         THEN <<rec>> \o sortedRecs
         ELSE <<Head(sortedRecs)>> \o InsertSorted(Tail(sortedRecs), rec)

RECURSIVE SortRecords(_, _)
SortRecords(done, rest) ==
    IF rest = <<>> THEN done
    ELSE SortRecords(InsertSorted(done, Head(rest)), Tail(rest))

\* dist <= rec_a["window_size"] * alpha
WithinReachStrict(rec_a, rec_b, a) ==
    Abs(rec_a.cp - rec_b.cp) * a[2] < rec_a.window_size * a[1]
WithinReach(rec_a, rec_b, a) ==
    Abs(rec_a.cp - rec_b.cp) * a[2] <= rec_a.window_size * a[1]

\* The indices j > i of the merge candidates of records[i]
CandidatesAnyWindow(records, i, a) ==
    {j \in DOMAIN records :
        /\ records[j].window_size # records[i].window_size
        /\ WithinReach(records[i], records[j], a)}
Candidates(records, i, a) ==
    {j \in (i + 1)..Len(records) :
        /\ ~(records[j].window_size >= records[i].window_size)
        /\ WithinReach(records[i], records[j], a)}

\* min(candidates, key=lambda x: x[0]): the first candidate of least distance
ClosestLast(records, i, cands) ==
    CHOOSE j \in cands :
        \A m \in cands :
            \/ Abs(records[i].cp - records[j].cp) < Abs(records[i].cp - records[m].cp)
            \/ /\ Abs(records[i].cp - records[j].cp) = Abs(records[i].cp - records[m].cp)
               /\ j >= m
Closest(records, i, cands) ==
    CHOOSE j \in cands :
        \A m \in cands :
            \/ Abs(records[i].cp - records[j].cp) < Abs(records[i].cp - records[m].cp)
            \/ /\ Abs(records[i].cp - records[j].cp) = Abs(records[i].cp - records[m].cp)
               /\ j <= m

\* closest["support"] += rec_a["support"];
\* closest["supporting_windows"] |= rec_a["supporting_windows"]
MergeKeepLarger(rec_a, closest) ==
    [closest EXCEPT !.cp = rec_a.cp,
                    !.support = @ + rec_a.support,
                    !.supporting_windows = @ \cup rec_a.supporting_windows]
MergeInto(rec_a, closest) ==
    [closest EXCEPT !.support = @ + rec_a.support,
                    !.supporting_windows = @ \cup rec_a.supporting_windows]

\* The loop over the sorted records
RECURSIVE MergeLoop(_, _, _, _)
MergeLoop(records, i, merged_records, a) ==
    IF i > Len(records) THEN merged_records
    ELSE LET cands == Candidates(records, i, a)
         IN IF cands # {}
            THEN LET j == Closest(records, i, cands)
                 IN MergeLoop([records EXCEPT ![j] = MergeInto(records[i], @)],
                              i + 1, merged_records, a)
            ELSE MergeLoop(records, i + 1, Append(merged_records, records[i]), a)

\* aggregate_change_points_by_window: the rows of the returned DataFrame
aggregate_change_points_by_window(mapping, a) ==
    IF DOMAIN mapping = {} THEN <<>>
    ELSE MergeLoop(SortRecords(<<>>, FlattenRecords(mapping, DOMAIN mapping)),
                   1, <<>>, a)

\* aggregated_df["support"] >= min_support_windows
SupportIs(rec, min_support_windows) == rec.support = min_support_windows
SupportAtLeast(rec, min_support_windows) == rec.support >= min_support_windows

\* deduplicate_change_points_by_window
deduplicate_change_points_by_window(mapping, a, min_support_windows) ==
    IF DOMAIN mapping = {} THEN <<>>
    ELSE LET aggregated_df == aggregate_change_points_by_window(mapping, a)
         IN IF aggregated_df = <<>> THEN <<>>
            ELSE LET filtered_df ==
                        SelectSeq(aggregated_df,
                                  LAMBDA rec : SupportAtLeast(rec, min_support_windows))
                 IN [k \in DOMAIN filtered_df |-> filtered_df[k].cp]

IdleMain ==
    /\ DO_SINGLE_BAR = TRUE
    /\ outcome = <<>> /\ finished = <<>> /\ overtaken = FALSE
    /\ calls = <<>> /\ delivered = <<>>
    /\ results_df = EmptyDataFrame /\ counter = 0 /\ next_write_index = 0
    /\ results_file_columns = <<>> /\ file = <<>> /\ pc = "idle"
    /\ faultedBy = 0 /\ finalWrites = 0 /\ lastFlush = "none"

InitAgg ==
    /\ cp_all_window_sizes \in Mappings
    /\ alpha \in Alphas
    /\ aggregated = <<>>
    /\ deduplicated = <<>>
    /\ apc = "input"
    /\ IdleMain
    /\ IdleBuild

CallAggregate ==
    /\ apc = "input"
    /\ aggregated' = aggregate_change_points_by_window(cp_all_window_sizes, alpha)
    /\ apc' = "aggregated"
    /\ UNCHANGED <<cp_all_window_sizes, alpha, deduplicated>>
    /\ UNCHANGED <<mainVars, buildVars>>

\* deduplicate_change_points_by_window called with each threshold
CallDeduplicate ==
    /\ apc = "aggregated"
    /\ deduplicated' =
        [k \in 1..MaxSupport |->
            deduplicate_change_points_by_window(cp_all_window_sizes, alpha, k)]
    /\ apc' = "done"
    /\ UNCHANGED <<cp_all_window_sizes, alpha, aggregated>>
    /\ UNCHANGED <<mainVars, buildVars>>

NextAgg == CallAggregate \/ CallDeduplicate

SpecAgg == InitAgg /\ [][NextAgg]_vars

----------------------------------------------------------------------------
\* build_arguments_list

\* most candidate values of one parameter
MaxValues == 2
\* most event logs
MaxDatasets == 2

\* The approaches of the configuration, in the order of the document
ApproachNames == <<"BOSE", "MARTJUSHEV">>
Functions == {"testBose", "testMartjushev"}
ParamNames == <<"window_size", "step_size">>
\* enabled: true, false, or no such key
EnabledValues == {"True", "False", "absent"}

\* The params of approach n: every parameter with 1..MaxValues candidate
\* values; a value names the approach it is of.
ParamGrids(n) ==
    {[p \in DOMAIN ParamNames |->
        <<ParamNames[p], [j \in 1..lens[p] |-> 10 * n + j]>>] :
     lens \in [DOMAIN ParamNames -> 1..MaxValues]}

Approaches(n) ==
    [enabled : EnabledValues, function : Functions,
     meta_params : {<< <<"do_j", n>> >>}, params : ParamGrids(n)]

Configs ==
    {cfg \in [DOMAIN ApproachNames ->
                UNION {Approaches(n) : n \in DOMAIN ApproachNames}] :
        \A n \in DOMAIN ApproachNames : cfg[n] \in Approaches(n)}

\* d[key] = val on a dict (a sequence of <<key, value>> in insertion order)
DictSet(d, key, val) ==
    IF DictHas(d, key)
    THEN [p \in DOMAIN d |-> IF d[p][1] = key THEN <<key, val>> ELSE d[p]]
    ELSE Append(d, <<key, val>>)

\* a | b
RECURSIVE DictMerge(_, _)
DictMerge(a, b) ==
    IF b = <<>> THEN a
    ELSE DictMerge(DictSet(a, Head(b)[1], Head(b)[2]), Tail(b))

\* approach.get("enabled", True) == True
Enabled(approach) == approach.enabled \in {"True", "absent"}

\* _args: a dict keyed by approach["function"], filled in document order
RECURSIVE ArgsByFunction(_, _)
ArgsByFunction(acc, approaches) ==
    IF approaches = <<>> THEN acc
    ELSE ArgsByFunction(
            IF Enabled(Head(approaches))
            THEN DictSet(acc, Head(approaches).function,
                         <<Head(approaches).meta_params, Head(approaches).params>>)
            ELSE acc,
            Tail(approaches))

\* itertools.product(*values)
RECURSIVE product(_)
product(values) ==
    IF values = <<>> THEN << <<>> >>
    ELSE LET rest == product(Tail(values))
         IN Concat([i \in DOMAIN Head(values) |->
                      [j \in DOMAIN rest |-> <<Head(values)[i]>> \o rest[j]]])

\* [dict(zip(keys, v)) for v in product(*values)]
permutations_dicts(args) ==
    LET keys == [p \in DOMAIN args |-> args[p][1]]
        values == [p \in DOMAIN args |-> args[p][2]]
        combos == product(values)
    IN [c \in DOMAIN combos |->
            [p \in DOMAIN keys |-> <<keys[p], combos[c][p]>>]]

\* lst[:1]
WholeList(lst) == lst
FirstOnly(lst) == SubSeq(lst, 1, IF Len(lst) >= 1 THEN 1 ELSE 0)

\* The tasks before the shuffle
ExpandedArguments(cfg, n_datasets, test_run) ==
    LET _args == ArgsByFunction(<<>>, cfg)
        per_function ==
            [f \in DOMAIN _args |->
                LET funcname == _args[f][1]
                    meta_args == _args[f][2][1]
                    perms == permutations_dicts(_args[f][2][2])
                    used == IF test_run THEN FirstOnly(perms) ELSE perms
                IN [c \in DOMAIN used |->
                        <<funcname, DictMerge(used[c], meta_args)>>]]
        logPaths_Changepoints ==
            IF test_run THEN FirstOnly([d \in 1..n_datasets |-> <<d, d>>])
            ELSE [d \in 1..n_datasets |-> <<d, d>>]
        meta_args ==
            [d \in DOMAIN logPaths_Changepoints |->
                << <<"F1_LAG", 0>>,
                   <<"filepath", logPaths_Changepoints[d][1]>>,
                   <<"cp_locations", logPaths_Changepoints[d][2]>>,
                   <<"show_progress_bar", ~DO_SINGLE_BAR>> >>]
        arguments0 == Concat(per_function)
    IN Concat([k \in DOMAIN arguments0 |->
                [d \in DOMAIN meta_args |->
                    <<arguments0[k][1],
                      DictMerge(arguments0[k][2], meta_args[d])>>]])

\* np.random.shuffle: the list in another order.  Of the orders the shuffle
\* can give, the model draws the rotations of the list.
Rotate(lst, k) ==
    [p \in DOMAIN lst |-> lst[((p - 1 + k) % Len(lst)) + 1]]

\* (funcname, d | {"position": idx}) for idx, (funcname, d) in enumerate(...)
WithPositions(lst) ==
    [p \in DOMAIN lst |->
        <<lst[p][1], DictMerge(lst[p][2], << <<"position", p - 1>> >>)>>]

InitBuild ==
    /\ config \in Configs
    /\ datasets \in 1..MaxDatasets
    /\ is_test_run \in BOOLEAN
    /\ arguments = <<>>
    /\ bpc = "config"
    /\ IdleMain
    /\ IdleAgg

build_arguments_list ==
    /\ bpc = "config"
    /\ LET expanded == ExpandedArguments(config, datasets, is_test_run)
       IN \E k \in 0..(IF expanded = <<>> THEN 0 ELSE Len(expanded) - 1) :
            arguments' = WithPositions(Rotate(expanded, k))
    /\ bpc' = "built"
    /\ UNCHANGED <<config, datasets, is_test_run>>
    /\ UNCHANGED <<mainVars, aggVars>>

NextBuild == build_arguments_list

SpecBuild == InitBuild /\ [][NextBuild]_vars

----------------------------------------------------------------------------
\* Statements about main

\* The v-th entry of task i is on a data line of the file
EntryInFile(i, v) ==
    \E l \in DOMAIN file :
        /\ file[l][1] = "R"
        /\ <<i, v>> \in Range(file[l][2])

\* The tasks a worker completed with results of which some are not in the file
LostTasks ==
    {i \in Tasks : /\ outcome[i].kind = "rows"
                   /\ \E v \in DOMAIN Entries(i) : ~EntryInFile(i, v)}

\* The value of column c in row r of df
CellAt(df, r, c) == df.rows[r][IndexOf(df.columns, c)]

\* Two frames hold the same table: the same set of columns, the same rows
\* in the same order, the same cell in every column of every row.
SameTable(a, b) ==
    /\ Range(a.columns) = Range(b.columns)
    /\ Len(a.columns) = Len(b.columns)
    /\ Len(a.rows) = Len(b.rows)
    /\ \A r \in DOMAIN a.rows :
        \A c \in Range(a.columns) : CellAt(a, r, c) = CellAt(b, r, c)

\* C1 (as claimed): a task whose function returned np.NaN and whose result
\* was handed back to main is skipped, it raises no fault in main.
C1_NotApplicableSkipped ==
    \A i \in Range(delivered) : outcome[i].kind = "nan" => faultedBy # i

\* C2 (as claimed): when a task fault ends the batch, the final write of
\* results_df has happened by the time main has terminated.
C2_FinalWriteAfterFault ==
    pc = "aborted" => finalWrites >= 1

\* C2 (amended): the final write happens exactly when the batch completes
\* without a fault, and then the file is the whole buffer; once a result has
\* raised in main no final write ever happens.
C2_FinalWriteOnlyOnCompletion ==
    /\ faultedBy # 0 => finalWrites = 0
    /\ pc = "done" => /\ faultedBy = 0
                      /\ finalWrites = 1
                      /\ file = to_csv(results_df)

\* C2 witness: a result raised in main after rows had been buffered
C2_FaultAfterRows ==
    /\ faultedBy # 0
    /\ Len(results_df.rows) > 0
    /\ finalWrites = 0

\* C3 (as claimed): in streaming mode main receives the results in the
\* order the workers completed them: it never receives a result while an
\* earlier completed one is still waiting.
C3_CompletionOrder ==
    DO_SINGLE_BAR => ~overtaken

\* C3 (amended): in streaming mode main receives the results in submission
\* order: the k-th result it receives is that of the k-th task.
C3_SubmissionOrder ==
    DO_SINGLE_BAR => \A k \in DOMAIN delivered : delivered[k] = k

\* C3 witness: a later submitted task finished first, and the earlier
\* submitted one was received and buffered before it
C3_LaterFinishedFirst ==
    /\ DO_SINGLE_BAR
    /\ overtaken
    /\ Len(results_df.rows) > 0
    /\ finished # <<>>

\* C4 (as claimed): when a fault ends the batch, at most
\* write_every_x_iterations completed tasks have results missing in the file.
C4_AtMostPeriodLost ==
    pc = "aborted" => Cardinality(LostTasks) <= write_every_x_iterations

\* C4 (amended): in streaming mode, fewer than write_every_x_iterations of
\* the tasks whose result main has received have results missing in the file.
C4_ReceivedLossBelowPeriod ==
    DO_SINGLE_BAR =>
        Cardinality(LostTasks \cap Range(delivered)) < write_every_x_iterations

\* C4 witness: a fault ended the streaming batch after a periodic flush, and
\* a received result is missing in the file
C4_FaultAfterFlush ==
    /\ DO_SINGLE_BAR
    /\ pc = "aborted"
    /\ file # <<>>
    /\ Cardinality(LostTasks \cap Range(delivered)) = write_every_x_iterations - 1

\* C6: right after a periodic flush the file is one header line equal to the
\* buffer's columns followed by one data line per buffer row, in buffer order,
\* each with one field per header column.
C6_FileIsBufferAfterFlush ==
    lastFlush # "none" =>
        /\ file = to_csv(results_df)
        /\ file[1] = <<"H", results_df.columns>>
        /\ \A l \in 2..Len(file) :
            /\ file[l][1] = "R"
            /\ Len(file[l][2]) = Len(file[1][2])

\* C6 witness: the second periodic flush rewrote the file because the results
\* received after the first flush brought a new column
C6_RewriteAfterNewColumn ==
    /\ lastFlush = "rewrite"
    /\ counter = 2 * write_every_x_iterations
    /\ Entries(1) # <<>>
    /\ Len(results_df.columns) = 3

\* C7: when the batch completes, every task has been run once, and the final
\* table (buffer and file) has, per task, each returned entry as one row of
\* its own with that entry's cells: the row count is the sum of the lengths
\* of the returned lists.
C7_EveryEntryOneRow ==
    pc = "done" =>
        /\ \A i \in Tasks : calls[i] = 1
        /\ Len(results_df.rows) = SumSeq([i \in Tasks |-> Len(Entries(i))])
        /\ file = to_csv(results_df)
        /\ \A i \in Tasks : \A v \in DOMAIN Entries(i) :
            /\ Cardinality({r \in DOMAIN results_df.rows :
                              <<i, v>> \in Range(results_df.rows[r])}) = 1
            /\ EntryInFile(i, v)
            /\ \A r \in DOMAIN results_df.rows :
                <<i, v>> \in Range(results_df.rows[r]) =>
                    \A c \in Range(results_df.columns) :
                        CellAt(results_df, r, c) = DictGet(Entries(i)[v], c)

\* C7 witness: a completed batch with a task that returned two sibling entries
C7_SiblingRows ==
    /\ pc = "done"
    /\ \E i \in Tasks : Len(Entries(i)) = 2

\* C8: the table the streaming loop has built when the batch completes is the
\* table bulk mode builds from the same results with one call.
C8_StreamingEqualsBulk ==
    (DO_SINGLE_BAR /\ pc \in {"final", "done"}) =>
        SameTable(results_df,
                  write_results_to_buffer(flattened_results, EmptyDataFrame))

\* C8 witness: a completed streaming batch in which a later task brought a
\* column the buffer did not have
C8_StreamingMixedColumns ==
    /\ DO_SINGLE_BAR
    /\ pc = "done"
    /\ Len(results_df.columns) = 3
    /\ Entries(1) # <<>>
    /\ \E i \in Tasks : Entries(i) # <<>> /\ outcome[i].shape # outcome[1].shape

----------------------------------------------------------------------------
\* Statements about the aggregation

Min(S) == CHOOSE x \in S : \A y \in S : x <= y

\* number of positions of s that hold x
Count(s, x) == Cardinality({k \in DOMAIN s : s[k] = x})

\* The mapping {10: [100], 3: [102]}
MergeDirectionInput == (3 :> <<102>>) @@ (10 :> <<100>>)

\* C5 (as claimed): {10: [100], 3: [102]} with alpha = 1.0 yields one record,
\* located at 100 with support 2: the merged record carries the location of
\* the larger-window candidate.
C5_SurvivorAtLargerWindow ==
    (apc # "input" /\ cp_all_window_sizes = MergeDirectionInput
                   /\ alpha = <<1, 1>>) =>
        /\ Len(aggregated) = 1
        /\ aggregated[1].cp = 100
        /\ aggregated[1].support = 2

\* C5 (amended): {10: [100], 3: [102]} with alpha = 1.0 yields one record,
\* located at 102 (window size 3) with support 2; in general a surviving
\* record is a candidate of the smallest window size merged into it: its
\* location is one the input lists under that window size.
C5_SurvivorAtSmallerWindow ==
    apc # "input" =>
        /\ (cp_all_window_sizes = MergeDirectionInput /\ alpha = <<1, 1>>) =>
                aggregated = << [cp |-> 102, window_size |-> 3, support |-> 2,
                                 supporting_windows |-> {3, 10}] >>
        /\ \A k \in DOMAIN aggregated :
            /\ aggregated[k].window_size = Min(aggregated[k].supporting_windows)
            /\ aggregated[k].cp
                 \in Range(cp_all_window_sizes[aggregated[k].window_size])

\* C5 witness: the aggregation of {10: [100], 3: [102]} with alpha = 1.0
C5_MergeDirectionCase ==
    /\ apc = "aggregated"
    /\ cp_all_window_sizes = MergeDirectionInput
    /\ alpha = <<1, 1>>
    /\ Len(aggregated) = 1

\* C10: for thresholds k1 <= k2 the locations returned with
\* min_support_windows = k2 are a sub-multiset of those returned with k1.
C10_ThresholdMonotone ==
    apc = "done" =>
        \A k1 \in 1..MaxSupport : \A k2 \in k1..MaxSupport :
            \A x \in Locations :
                Count(deduplicated[k2], x) <= Count(deduplicated[k1], x)

\* C10 witness: a threshold filters out a location a lower threshold returns,
\* and keeps another
C10_ThresholdFilters ==
    /\ apc = "done"
    /\ \E k \in 1..(MaxSupport - 1) :
        /\ deduplicated[k + 1] # <<>>
        /\ Len(deduplicated[k + 1]) < Len(deduplicated[k])

----------------------------------------------------------------------------
\* Statements about build_arguments_list

RECURSIVE ProductOfLengths(_)
ProductOfLengths(args) ==
    IF args = <<>> THEN 1
    ELSE Len(Head(args)[2]) * ProductOfLengths(Tail(args))

\* C9 (as claimed): without test run, the number of tasks is the sum, over
\* the enabled approaches, of the size of the approach's parameter grid times
\* the number of datasets.
C9_TaskCountPerApproach ==
    (bpc = "built" /\ ~is_test_run) =>
        Len(arguments) =
            SumSeq([n \in DOMAIN config |->
                      IF Enabled(config[n])
                      THEN ProductOfLengths(config[n].params) * datasets
                      ELSE 0])

----------------------------------------------------------------------------
\* Statements about the aggregation (continued)

\* C11 (as claimed): every location returned with min_support_windows = k is
\* that of a surviving record backed by at least k distinct window sizes,
\* and the support of a surviving record is the number of distinct window
\* sizes in its supporting_windows.
C11_SupportCountsWindows ==
    apc = "done" =>
        /\ \A q \in DOMAIN aggregated :
            aggregated[q].support = Cardinality(aggregated[q].supporting_windows)
        /\ \A k \in 1..MaxSupport : \A p \in DOMAIN deduplicated[k] :
            \E q \in DOMAIN aggregated :
                /\ aggregated[q].cp = deduplicated[k][p]
                /\ Cardinality(aggregated[q].supporting_windows) >= k

\* The list s is in ascending order
Ascending(s) == \A p \in DOMAIN s : \A q \in DOMAIN s : p < q => s[p] <= s[q]

\* The mapping has one window size
SingleWindow(mapping) == Cardinality(DOMAIN mapping) = 1
OnlyWindow(mapping) == CHOOSE ws \in DOMAIN mapping : TRUE

\* C12 (as claimed): for a mapping with one window size and list L,
\* min_support_windows = 1 returns exactly L, in the same order.
C12_SingleWindowUnchanged ==
    (apc = "done" /\ SingleWindow(cp_all_window_sizes)) =>
        deduplicated[1] = cp_all_window_sizes[OnlyWindow(cp_all_window_sizes)]

\* C12 (amended): for a mapping with one window size and list L,
\* min_support_windows = 1 returns the locations of L with their
\* multiplicities in ascending order (L itself when L is ascending), and
\* applying it again to {windowSize: result} returns the same list.
C12_SingleWindowSorted ==
    (apc = "done" /\ SingleWindow(cp_all_window_sizes)) =>
        LET ws == OnlyWindow(cp_all_window_sizes)
            L == cp_all_window_sizes[ws]
            result == deduplicated[1]
        IN /\ Len(result) = Len(L)
           /\ \A x \in Locations : Count(result, x) = Count(L, x)
           /\ Ascending(result)
           /\ Ascending(L) => result = L
           /\ deduplicate_change_points_by_window((ws :> result), alpha, 1)
                = result

\* C12 witness: one window size with a list that is not ascending and holds
\* a location twice
C12_UnsortedSingleWindow ==
    /\ apc = "done"
    /\ SingleWindow(cp_all_window_sizes)
    /\ ~Ascending(cp_all_window_sizes[OnlyWindow(cp_all_window_sizes)])
    /\ \E x \in Locations : Count(deduplicated[1], x) = 2
    /\ Len(deduplicated[1]) = 3

----------------------------------------------------------------------------
\* Statements about main (continued)

\* The rows main hands to write_results_to_buffer in a step that takes
\* results without a fault: the entries of the task received last in
\* streaming mode, the flattened results of all tasks in bulk mode.
AppendedRows ==
    IF DO_SINGLE_BAR THEN Entries(delivered'[Len(delivered')])
    ELSE flattened_results

\* The column names the dicts report
ReportedKeys(dicts) ==
    UNION {{dicts[k][p][1] : p \in DOMAIN dicts[k]} : k \in DOMAIN dicts}

\* C13: every append to the buffer returns a table whose column set is the
\* union of the existing columns and the new rows' keys, whose first rows are
\* the existing rows in order with their cells (a missing cell in each column
\* they did not have), followed by the new rows in order with their cells
\* (a missing cell in each column they did not report); appending zero rows
\* leaves the table unchanged.
C13_AppendKeepsTable ==
    [][(delivered' # delivered /\ faultedBy' = 0) =>
        LET old == results_df
            new == results_df'
            new_rows == AppendedRows
        IN /\ Range(new.columns) = Range(old.columns) \cup ReportedKeys(new_rows)
           /\ Len(new.columns) = Cardinality(Range(new.columns))
           /\ Len(new.rows) = Len(old.rows) + Len(new_rows)
           /\ \A r \in DOMAIN old.rows : \A c \in Range(new.columns) :
                CellAt(new, r, c) = IF c \in Range(old.columns)
                                    THEN CellAt(old, r, c)
                                    ELSE NaN
           /\ \A k \in DOMAIN new_rows : \A c \in Range(new.columns) :
                CellAt(new, Len(old.rows) + k, c) = DictGet(new_rows[k], c)
           /\ new_rows = <<>> => new = old
      ]_vars

\* C13 witness: the streaming buffer after an append that brought a column
\* sorting before an existing one: an earlier row has a missing cell there,
\* and a task that returned no rows has been received as well
C13_ColumnAddedInside ==
    /\ DO_SINGLE_BAR
    /\ results_df.columns = <<1, 2, 3>>
    /\ Len(results_df.rows) >= 3
    /\ results_df.rows[1][2] = NaN
    /\ results_df.rows[Len(results_df.rows)][3] = NaN
    /\ \E i \in Range(delivered) : outcome[i].kind = "rows" /\ Entries(i) = <<>>

----------------------------------------------------------------------------
\* Statements about build_arguments_list (continued)

\* The functions the enabled approaches name
EnabledFunctions ==
    {config[n].function : n \in {m \in DOMAIN config : Enabled(config[m])}}

\* The last enabled approach that names function f: the one whose entry
\* the dict _args holds for f
LastNaming(f) ==
    CHOOSE n \in DOMAIN config :
        /\ Enabled(config[n]) /\ config[n].function = f
        /\ \A m \in DOMAIN config :
            (Enabled(config[m]) /\ config[m].function = f) => m <= n

\* C14 (as claimed): a test run returns a single parameter combination on
\* the first dataset: one task, of the first dataset.
C14_TestRunOneCombination ==
    (bpc = "built" /\ is_test_run /\ EnabledFunctions # {}) =>
        /\ Len(arguments) = 1
        /\ \A t \in DOMAIN arguments : DictGet(arguments[t][2], "filepath") = 1

\* C14 (amended): a test run returns one task per function the enabled
\* approaches name: that task is of the first dataset and holds the first
\* combination of the cartesian expansion (the first candidate value of
\* every parameter) of the params _args keeps for the function.
C14_TestRunOnePerFunction ==
    (bpc = "built" /\ is_test_run) =>
        /\ Len(arguments) = Cardinality(EnabledFunctions)
        /\ {arguments[t][1] : t \in DOMAIN arguments} = EnabledFunctions
        /\ \A t \in DOMAIN arguments :
            LET params == config[LastNaming(arguments[t][1])].params
            IN /\ DictGet(arguments[t][2], "filepath") = 1
               /\ DictGet(arguments[t][2], "cp_locations") = 1
               /\ \A p \in DOMAIN params :
                    DictGet(arguments[t][2], params[p][1]) = params[p][2][1]

\* C14 witness: a test run over two enabled approaches with different
\* functions, grids of more than one combination and more than one dataset
C14_TestRunTwoFunctions ==
    /\ bpc = "built"
    /\ is_test_run
    /\ Cardinality(EnabledFunctions) = 2
    /\ datasets > 1
    /\ \A n \in DOMAIN config : ProductOfLengths(config[n].params) > 1
    /\ Len(arguments) = 2

----------------------------------------------------------------------------
\* Statements about the aggregation (merge rule)

\* The candidates of the input as records of support 1, in the order the
\* loop takes them
InputRecords ==
    IF DOMAIN cp_all_window_sizes = {} THEN <<>>
    ELSE SortRecords(<<>>, FlattenRecords(cp_all_window_sizes,
                                          DOMAIN cp_all_window_sizes))

Distance(recs, i, j) == Abs(recs[i].cp - recs[j].cp)

\* The records b that record i may be merged into: strictly smaller window
\* size, at most windowSize(i) * alpha away
Reachable(recs, i) ==
    {j \in DOMAIN recs :
        /\ recs[j].window_size < recs[i].window_size
        /\ Distance(recs, i, j) * alpha[2] <= recs[i].window_size * alpha[1]}

\* The one of least distance, the first in the order on a tie
Target(recs, i) ==
    CHOOSE j \in Reachable(recs, i) :
        /\ \A m \in Reachable(recs, i) : Distance(recs, i, j) <= Distance(recs, i, m)
        /\ \A m \in Reachable(recs, i) :
            Distance(recs, i, m) = Distance(recs, i, j) => j <= m

\* The records merged into record i
Sources(recs, i) ==
    {k \in DOMAIN recs : Reachable(recs, k) # {} /\ Target(recs, k) = i}

\* What record i has accumulated when the loop reaches it
RECURSIVE AccSupport(_, _)
RECURSIVE SumAccSupport(_, _)
SumAccSupport(recs, S) ==
    IF S = {} THEN 0
    ELSE LET k == CHOOSE x \in S : TRUE
         IN AccSupport(recs, k) + SumAccSupport(recs, S \ {k})
AccSupport(recs, i) == 1 + SumAccSupport(recs, Sources(recs, i))

RECURSIVE AccWindows(_, _)
AccWindows(recs, i) ==
    {recs[i].window_size} \cup UNION {AccWindows(recs, k) : k \in Sources(recs, i)}

\* The records nothing is reachable from, in the order of the loop
Survivors(recs) ==
    SelectSeq([i \in DOMAIN recs |-> i], LAMBDA i : Reachable(recs, i) = {})

\* C15: records are taken by window size descending, then location
\* ascending; a record is merged into the closest record of strictly smaller
\* window size within windowSize(a) * alpha (the first one on a tie), which
\* gets its accumulated support and supporting windows; the output holds
\* exactly the records with no such target, in that order.
C15_MergedIntoClosestSmaller ==
    apc # "input" =>
        LET recs == InputRecords
            surv == Survivors(recs)
        IN /\ \A p \in DOMAIN recs : \A q \in DOMAIN recs :
                p < q =>
                    \/ recs[p].window_size > recs[q].window_size
                    \/ /\ recs[p].window_size = recs[q].window_size
                       /\ recs[p].cp <= recs[q].cp
           /\ aggregated =
                [k \in DOMAIN surv |->
                    [cp |-> recs[surv[k]].cp,
                     window_size |-> recs[surv[k]].window_size,
                     support |-> AccSupport(recs, surv[k]),
                     supporting_windows |-> AccWindows(recs, surv[k])]]

\* C15 witness: the record of window size 10 at 102 has two records of
\* window size 3 at distance 2 and is merged into the first of them
C15_TieGoesToFirst ==
    /\ apc = "done"
    /\ cp_all_window_sizes = (3 :> <<100, 104>>) @@ (10 :> <<102>>)
    /\ alpha = <<1, 1>>
    /\ aggregated =
        << [cp |-> 100, window_size |-> 3, support |-> 2,
            supporting_windows |-> {3, 10}],
           [cp |-> 104, window_size |-> 3, support |-> 1,
            supporting_windows |-> {3}] >>

\* The number of (window size, location) candidates of a mapping
RECURSIVE NumCandidates(_, _)
NumCandidates(mapping, keys) ==
    IF keys = {} THEN 0
    ELSE LET ws == CHOOSE x \in keys : TRUE
         IN Len(mapping[ws]) + NumCandidates(mapping, keys \ {ws})

\* C16: the supports of the surviving records add up to the number of
\* candidates of the input.
C16_SupportConserved ==
    apc # "input" =>
        SumSeq([k \in DOMAIN aggregated |-> aggregated[k].support])
            = NumCandidates(cp_all_window_sizes, DOMAIN cp_all_window_sizes)

\* C16 witness: a chain of merges, 10 into 3 into 2, leaves one record that
\* carries the support of all three candidates
C16_ChainCarriesSupport ==
    /\ apc = "done"
    /\ Cardinality(DOMAIN cp_all_window_sizes) = 3
    /\ NumCandidates(cp_all_window_sizes, DOMAIN cp_all_window_sizes) = 3
    /\ Len(aggregated) = 1
    /\ aggregated[1].support = 3
    /\ aggregated[1].window_size = 2
    /\ LET recs == InputRecords
       IN \E i \in DOMAIN recs :
            /\ recs[i].window_size = 10
            /\ Reachable(recs, i) # {}
            /\ recs[Target(recs, i)].window_size = 3

\* C17: two survivors of different window sizes are farther apart than the
\* larger window size times alpha; every candidate of the smallest window
\* size survives; with per-window lists free of duplicates no location is
\* twice in the output of deduplicate_change_points_by_window.
C17_SurvivorsApart ==
    apc = "done" =>
        /\ alpha[1] >= 0 /\ alpha[2] > 0
        /\ \A p \in DOMAIN aggregated : \A q \in DOMAIN aggregated :
            aggregated[p].window_size > aggregated[q].window_size =>
                Abs(aggregated[p].cp - aggregated[q].cp) * alpha[2]
                    > aggregated[p].window_size * alpha[1]
        /\ DOMAIN cp_all_window_sizes # {} =>
            LET smallest == Min(DOMAIN cp_all_window_sizes)
            IN \A x \in Locations :
                Count(cp_all_window_sizes[smallest], x)
                    = Cardinality({q \in DOMAIN aggregated :
                                      /\ aggregated[q].window_size = smallest
                                      /\ aggregated[q].cp = x})
        /\ (\A ws \in DOMAIN cp_all_window_sizes : \A x \in Locations :
                Count(cp_all_window_sizes[ws], x) <= 1) =>
            \A k \in 1..MaxSupport : \A x \in Locations :
                Count(deduplicated[k], x) <= 1

\* C17 witness: duplicate-free lists, a record of window size 10 out of
\* reach of the records of window size 3 survives beside them
C17_TwoWindowSizesSurvive ==
    /\ apc = "done"
    /\ alpha = <<1, 4>>
    /\ \A ws \in DOMAIN cp_all_window_sizes : \A x \in Locations :
        Count(cp_all_window_sizes[ws], x) <= 1
    /\ \E p \in DOMAIN aggregated : \E q \in DOMAIN aggregated :
        /\ aggregated[p].window_size = 10
        /\ aggregated[q].window_size = 3
        /\ Abs(aggregated[p].cp - aggregated[q].cp) = 4
    /\ \E q \in DOMAIN aggregated : aggregated[q].support = 2
    /\ Len(deduplicated[1]) = 2

====
